---- MODULE Spec2Model ----
(***************************************************************************)
(* golyrics: the bubbletea model of main.go.  One Update call per message  *)
(* (key, window size, lyricsMsg, tickMsg); the commands an Update returns  *)
(* (tea.Tick, the fetchLyrics closure) run concurrently and deliver their  *)
(* message later, in any order.                                            *)
(***************************************************************************)
EXTENDS Bags, FiniteSets, Integers, Sequences, TLC

VARIABLES
    songData,        \* model.songData: [Status, Title, Artist, Lyrics]
    lastError,       \* model.lastError (Nil = nil)
    lastSong,        \* model.lastSong
    fetchingLyrics,  \* model.fetchingLyrics
    width, height,   \* model.width, model.height
    pendingTicks,    \* tea.Tick commands scheduled and not yet delivered
    inflight,        \* bag of fetchLyrics(song) commands started, not yet delivered
    quit,            \* tea.Quit was returned
    lastEvent,       \* the case of Update that ran last, and the song of its fetch
    lastTick,        \* what the most recent tickMsg probed and did
    raw, clean, applied  \* the clean-up of lines 123-126 applied to a raw text

vars == <<songData, lastError, lastSong, fetchingLyrics, width, height,
          pendingTicks, inflight, quit, lastEvent, lastTick, raw, clean, applied>>

engineVars == <<songData, lastError, lastSong, fetchingLyrics, width, height,
                pendingTicks, inflight, quit, lastEvent, lastTick>>

cleanVars == <<raw, clean, applied>>

----------------------------------------------------------------------------
(* Bounds *)

MaxInFlight == 2     \* fetch commands outstanding at once
MaxLen == 4          \* length of a raw lyric text
MaxApply == 2        \* times the clean-up is re-applied to its own output

----------------------------------------------------------------------------
(* Values *)

Nil == "nil"
NL == "\n"

\* Trimmed titles and artists playerctl can report (lines 67-68); a field may
\* hold a space, and the artist may be empty.
Titles == {"a", "a a"}
Artists == {"", "a", "a a"}

Statuses == {"Playing", "Paused"}

\* errors.New(...) of getSongInfo (two of the three; all are handled alike)
ProbeErrors == {"can't get metadata", "no song playing"}

\* var data SongData
EmptySong == [Status |-> "", Title |-> "", Artist |-> "", Lyrics |-> ""]

\* Every (SongData, error) getSongInfo can return.
getSongInfo ==
    {[err |-> e, data |-> EmptySong] : e \in ProbeErrors}
    \cup
    {[err |-> Nil,
      data |-> [Status |-> s, Title |-> t, Artist |-> a, Lyrics |-> ""]] :
        s \in Statuses, t \in Titles, a \in Artists}

\* The characters of a raw lyric text.
Chars == {"[", "]", NL, "a"}

\* string(seq of characters)
RECURSIVE Str(_)
Str(s) == IF s = <<>> THEN "" ELSE Head(s) \o Str(Tail(s))

\* strings.ReplaceAll(s, old, new), old non-empty: non-overlapping matches,
\* left to right, in one pass.
RECURSIVE ReplaceAll(_, _, _)
ReplaceAll(s, old, new) ==
    IF Len(s) < Len(old) THEN s
    ELSE IF SubSeq(s, 1, Len(old)) = old
         THEN new \o ReplaceAll(SubSeq(s, Len(old) + 1, Len(s)), old, new)
         ELSE <<Head(s)>> \o ReplaceAll(Tail(s), old, new)

\* "\n\n\n" -> "\n" would also shorten legitimate blank lines.
cleanLyrics_CollapsePairs(x) ==
    ReplaceAll(ReplaceAll(ReplaceAll(x, <<"[">>, <<NL, "[">>),
                          <<"]">>, <<"]", NL>>),
               <<NL, NL>>, <<NL>>)

\* Lines 124-126: the clean-up of the scraped text (the spec's normalize).
cleanLyrics(x) ==
    ReplaceAll(ReplaceAll(ReplaceAll(x, <<"[">>, <<NL, "[">>),
                          <<"]">>, <<"]", NL>>),
               <<NL, NL, NL>>, <<NL, NL>>)

\* Texts of the lyric containers of a page; each block ends with "\n" (line 116).
RawPages == {<<"[", "a", "]", "a", NL>>}

\* The placeholder strings fetchLyrics returns instead of lyrics (the first
\* and the last of the error strings; all are handled alike).
FetchErrors == {"Error fetching lyrics", "Error parsing lyrics page"}
NotFound == "No lyrics found"
Placeholders == FetchErrors \cup {NotFound}

\* Every lyricsMsg fetchLyrics can return.
fetchLyrics == Placeholders \cup {Str(cleanLyrics(r)) : r \in RawPages}

\* Window sizes a tea.WindowSizeMsg reports.
Sizes == {<<80, 24>>}

\* Keys that only call controlPlayer (lines 143-148).
ControlKeys == {"p", "n", "b"}

NoEvent == [kind |-> "init", song |-> ""]
NoTick == [seen |-> FALSE, err |-> Nil, Artist |-> "", Title |-> "",
           started |-> FALSE, busy |-> FALSE, same |-> FALSE, prevStarted |-> FALSE]

----------------------------------------------------------------------------
(* The program *)

\* main: initialModel, and the command of model.Init.
Init ==
    /\ songData = EmptySong
    /\ lastError = Nil
    /\ lastSong = ""
    /\ fetchingLyrics = FALSE
    /\ width = 0
    /\ height = 0
    /\ pendingTicks = 1
    /\ inflight = EmptyBag
    /\ quit = FALSE
    /\ lastEvent = NoEvent
    /\ lastTick = NoTick
    /\ raw = <<>>
    /\ clean = <<>>
    /\ applied = 0

\* data.Artist + " " + data.Title (lines 154, 170)
songKey(data) == data.Artist \o " " \o data.Title

\* What a tickMsg did: the probe's result, whether it started a fetch, whether
\* a fetch was in progress when it arrived, and how it relates to the tickMsg
\* before it (both probes succeeded with the same artist and title; the one
\* before started a fetch).
TickRecord(p, started) ==
    [seen |-> TRUE, err |-> p.err, Artist |-> p.data.Artist, Title |-> p.data.Title,
     started |-> started, busy |-> fetchingLyrics,
     same |-> /\ lastTick.seen
              /\ lastTick.err = Nil
              /\ p.err = Nil
              /\ p.data.Artist = lastTick.Artist
              /\ p.data.Title = lastTick.Title,
     prevStarted |-> lastTick.started]


\* The failed probe's empty SongData assigned to the model.
TickProbeFailed_ResetSong(p) ==
    /\ ~quit
    /\ pendingTicks > 0
    /\ p.err # Nil
    /\ lastError' = p.err
    /\ songData' = p.data
    /\ pendingTicks' = (pendingTicks - 1) + 1
    /\ lastEvent' = [kind |-> "tick", song |-> ""]
    /\ lastTick' = TickRecord(p, FALSE)
    /\ UNCHANGED <<lastSong, fetchingLyrics, width, height, inflight, quit>>
    /\ UNCHANGED cleanVars

\* tickMsg, getSongInfo failed (lines 166-168, 187-189).
TickProbeFailed(p) ==
    /\ ~quit
    /\ pendingTicks > 0
    /\ p.err # Nil
    /\ lastError' = p.err
    /\ pendingTicks' = (pendingTicks - 1) + 1
    /\ lastEvent' = [kind |-> "tick", song |-> ""]
    /\ lastTick' = TickRecord(p, FALSE)
    /\ UNCHANGED <<songData, lastSong, fetchingLyrics, width, height, inflight, quit>>
    /\ UNCHANGED cleanVars

\* The new-track branch forgetting to record the track it fetches for.
TickNewTrack_KeepLastSong(p) ==
    /\ ~quit
    /\ pendingTicks > 0
    /\ p.err = Nil
    /\ songKey(p.data) # lastSong /\ ~fetchingLyrics
    /\ BagCardinality(inflight) < MaxInFlight
    /\ fetchingLyrics' = TRUE
    /\ songData' = p.data
    /\ inflight' = inflight (+) SetToBag({songKey(p.data)})
    /\ pendingTicks' = (pendingTicks - 1) + 1
    /\ lastEvent' = [kind |-> "tick", song |-> songKey(p.data)]
    /\ lastTick' = TickRecord(p, TRUE)
    /\ UNCHANGED <<lastSong, lastError, width, height, quit>>
    /\ UNCHANGED cleanVars

\* The new-track branch returning the fetch command alone, without tea.Tick.
TickNewTrack_NoReschedule(p) ==
    /\ ~quit
    /\ pendingTicks > 0
    /\ p.err = Nil
    /\ songKey(p.data) # lastSong /\ ~fetchingLyrics
    /\ BagCardinality(inflight) < MaxInFlight
    /\ lastSong' = songKey(p.data)
    /\ fetchingLyrics' = TRUE
    /\ songData' = p.data
    /\ inflight' = inflight (+) SetToBag({songKey(p.data)})
    /\ pendingTicks' = pendingTicks - 1
    /\ lastEvent' = [kind |-> "tick", song |-> songKey(p.data)]
    /\ lastTick' = TickRecord(p, TRUE)
    /\ UNCHANGED <<lastError, width, height, quit>>
    /\ UNCHANGED cleanVars


\* The new-track branch taken whether or not a fetch is in progress.
TickNewTrack_IgnoreBusy(p) ==
    /\ ~quit
    /\ pendingTicks > 0
    /\ p.err = Nil
    /\ songKey(p.data) # lastSong
    /\ BagCardinality(inflight) < MaxInFlight
    /\ lastSong' = songKey(p.data)
    /\ fetchingLyrics' = TRUE
    /\ songData' = p.data
    /\ inflight' = inflight (+) SetToBag({songKey(p.data)})
    /\ pendingTicks' = (pendingTicks - 1) + 1
    /\ lastEvent' = [kind |-> "tick", song |-> songKey(p.data)]
    /\ lastTick' = TickRecord(p, TRUE)
    /\ UNCHANGED <<lastError, width, height, quit>>
    /\ UNCHANGED cleanVars

\* tickMsg, probe succeeded, currentSong != m.lastSong && !m.fetchingLyrics
\* (lines 170-183): the batch of the next tick and the fetch.
TickNewTrack(p) ==
    /\ ~quit
    /\ pendingTicks > 0
    /\ p.err = Nil
    /\ songKey(p.data) # lastSong /\ ~fetchingLyrics
    /\ BagCardinality(inflight) < MaxInFlight
    /\ lastSong' = songKey(p.data)
    /\ fetchingLyrics' = TRUE
    /\ songData' = p.data
    /\ inflight' = inflight (+) SetToBag({songKey(p.data)})
    /\ pendingTicks' = (pendingTicks - 1) + 1
    /\ lastEvent' = [kind |-> "tick", song |-> songKey(p.data)]
    /\ lastTick' = TickRecord(p, TRUE)
    /\ UNCHANGED <<lastError, width, height, quit>>
    /\ UNCHANGED cleanVars


\* The no-fetch branch recording the probed track while a fetch is in progress.
TickNoFetch_RecordSong(p) ==
    /\ ~quit
    /\ pendingTicks > 0
    /\ p.err = Nil
    /\ ~(songKey(p.data) # lastSong /\ ~fetchingLyrics)
    /\ lastSong' = songKey(p.data)
    /\ songData' = [p.data EXCEPT !.Lyrics = songData.Lyrics]
    /\ lastError' = Nil
    /\ pendingTicks' = (pendingTicks - 1) + 1
    /\ lastEvent' = [kind |-> "tick", song |-> ""]
    /\ lastTick' = TickRecord(p, FALSE)
    /\ UNCHANGED <<fetchingLyrics, width, height, inflight, quit>>
    /\ UNCHANGED cleanVars


\* The no-fetch branch leaving lastError as it is.
TickNoFetch_KeepError(p) ==
    /\ ~quit
    /\ pendingTicks > 0
    /\ p.err = Nil
    /\ ~(songKey(p.data) # lastSong /\ ~fetchingLyrics)
    /\ songData' = [songData EXCEPT !.Status = p.data.Status]
    /\ pendingTicks' = (pendingTicks - 1) + 1
    /\ lastEvent' = [kind |-> "tick", song |-> ""]
    /\ lastTick' = TickRecord(p, FALSE)
    /\ UNCHANGED <<lastError, lastSong, fetchingLyrics, width, height, inflight, quit>>
    /\ UNCHANGED cleanVars

\* The no-fetch branch assigning the whole probed SongData (m.songData = data).
TickNoFetch_ReplaceSongData(p) ==
    /\ ~quit
    /\ pendingTicks > 0
    /\ p.err = Nil
    /\ ~(songKey(p.data) # lastSong /\ ~fetchingLyrics)
    /\ songData' = [p.data EXCEPT !.Lyrics = songData.Lyrics]
    /\ lastError' = Nil
    /\ pendingTicks' = (pendingTicks - 1) + 1
    /\ lastEvent' = [kind |-> "tick", song |-> ""]
    /\ lastTick' = TickRecord(p, FALSE)
    /\ UNCHANGED <<lastSong, fetchingLyrics, width, height, inflight, quit>>
    /\ UNCHANGED cleanVars

\* tickMsg, probe succeeded, same key or a fetch in progress (lines 184-189).
TickNoFetch(p) ==
    /\ ~quit
    /\ pendingTicks > 0
    /\ p.err = Nil
    /\ ~(songKey(p.data) # lastSong /\ ~fetchingLyrics)
    /\ songData' = [songData EXCEPT !.Status = p.data.Status]
    /\ lastError' = Nil
    /\ pendingTicks' = (pendingTicks - 1) + 1
    /\ lastEvent' = [kind |-> "tick", song |-> ""]
    /\ lastTick' = TickRecord(p, FALSE)
    /\ UNCHANGED <<lastSong, fetchingLyrics, width, height, inflight, quit>>
    /\ UNCHANGED cleanVars

\* case tickMsg (lines 165-189)
Tick(p) == TickProbeFailed(p) \/ TickNewTrack(p) \/ TickNoFetch(p)

\* key "q" (lines 141-142)
KeyQuit ==
    /\ ~quit
    /\ quit' = TRUE
    /\ lastEvent' = [kind |-> "quit", song |-> ""]
    /\ UNCHANGED <<songData, lastError, lastSong, fetchingLyrics, width, height,
                   pendingTicks, inflight, lastTick>>
    /\ UNCHANGED cleanVars

\* keys "p", "n", "b" (lines 143-148): controlPlayer acts on the player, the
\* model is returned as it is, with no command (line 191).
KeyControl(k) ==
    /\ ~quit
    /\ lastEvent' = [kind |-> "control", song |-> ""]
    /\ UNCHANGED <<songData, lastError, lastSong, fetchingLyrics, width, height,
                   pendingTicks, inflight, quit, lastTick>>
    /\ UNCHANGED cleanVars


\* Key "r" also clearing the lyrics on display.
KeyRefresh_ClearLyrics ==
    /\ ~quit
    /\ songData.Title # "" /\ songData.Artist # ""
    /\ BagCardinality(inflight) < MaxInFlight
    /\ fetchingLyrics' = TRUE
    /\ songData' = [songData EXCEPT !.Lyrics = ""]
    /\ inflight' = inflight (+) SetToBag({songKey(songData)})
    /\ lastEvent' = [kind |-> "refresh", song |-> songKey(songData)]
    /\ UNCHANGED <<lastError, lastSong, width, height,
                   pendingTicks, quit, lastTick>>
    /\ UNCHANGED cleanVars

\* key "r" with a title and an artist (lines 149-156)
KeyRefresh ==
    /\ ~quit
    /\ songData.Title # "" /\ songData.Artist # ""
    /\ BagCardinality(inflight) < MaxInFlight
    /\ fetchingLyrics' = TRUE
    /\ inflight' = inflight (+) SetToBag({songKey(songData)})
    /\ lastEvent' = [kind |-> "refresh", song |-> songKey(songData)]
    /\ UNCHANGED <<songData, lastError, lastSong, width, height,
                   pendingTicks, quit, lastTick>>
    /\ UNCHANGED cleanVars

\* key "r" with no title or no artist (lines 150, 157, 191)
KeyRefreshNoTrack ==
    /\ ~quit
    /\ ~(songData.Title # "" /\ songData.Artist # "")
    /\ lastEvent' = [kind |-> "refresh", song |-> ""]
    /\ UNCHANGED <<songData, lastError, lastSong, fetchingLyrics, width, height,
                   pendingTicks, inflight, quit, lastTick>>
    /\ UNCHANGED cleanVars

\* case tea.WindowSizeMsg (lines 159-161)
WindowSize(w, h) ==
    /\ ~quit
    /\ width' = w
    /\ height' = h
    /\ lastEvent' = [kind |-> "resize", song |-> ""]
    /\ UNCHANGED <<songData, lastError, lastSong, fetchingLyrics,
                   pendingTicks, inflight, quit, lastTick>>
    /\ UNCHANGED cleanVars

\* A lyricsMsg handler that reports a failed fetch as the model's error.
FetchCompleted_RecordError(song, msg) ==
    /\ ~quit
    /\ BagIn(song, inflight)
    /\ inflight' = inflight (-) SetToBag({song})
    /\ fetchingLyrics' = FALSE
    /\ songData' = [songData EXCEPT !.Lyrics = msg]
    /\ lastError' = IF msg \in Placeholders THEN msg ELSE lastError
    /\ lastEvent' = [kind |-> "lyrics", song |-> song]
    /\ UNCHANGED <<lastSong, width, height, pendingTicks, quit, lastTick>>
    /\ UNCHANGED cleanVars


\* A lyricsMsg handler that forgets m.fetchingLyrics = false.
FetchCompleted_KeepFlag(song, msg) ==
    /\ ~quit
    /\ BagIn(song, inflight)
    /\ inflight' = inflight (-) SetToBag({song})
    /\ songData' = [songData EXCEPT !.Lyrics = msg]
    /\ lastEvent' = [kind |-> "lyrics", song |-> song]
    /\ UNCHANGED <<lastError, lastSong, fetchingLyrics, width, height,
                   pendingTicks, quit, lastTick>>
    /\ UNCHANGED cleanVars

\* case lyricsMsg (lines 162-164): the fetch started with `song` delivers msg.
FetchCompleted(song, msg) ==
    /\ ~quit
    /\ BagIn(song, inflight)
    /\ inflight' = inflight (-) SetToBag({song})
    /\ fetchingLyrics' = FALSE
    /\ songData' = [songData EXCEPT !.Lyrics = msg]
    /\ lastEvent' = [kind |-> "lyrics", song |-> song]
    /\ UNCHANGED <<lastError, lastSong, width, height, pendingTicks, quit, lastTick>>
    /\ UNCHANGED cleanVars

\* model.Update (lines 137-192)
Next ==
    \/ \E p \in getSongInfo : Tick(p)
    \/ KeyQuit
    \/ \E k \in ControlKeys : KeyControl(k)
    \/ KeyRefresh
    \/ KeyRefreshNoTrack
    \/ \E sz \in Sizes : WindowSize(sz[1], sz[2])
    \/ \E song \in BagToSet(inflight), msg \in fetchLyrics : FetchCompleted(song, msg)

Spec == Init /\ [][Next]_vars


\* The probes and fetch results of the runs checked for progress: two tracks
\* and one probe error, one placeholder and one lyric text.
LiveTracks == {<<"a", "a">>, <<"a a", "a">>}
LiveProbes ==
    {p \in getSongInfo :
        \/ p.err = "no song playing"
        \/ /\ p.err = Nil
           /\ p.data.Status = "Playing"
           /\ <<p.data.Artist, p.data.Title>> \in LiveTracks}
LiveResults == {NotFound} \cup {Str(cleanLyrics(r)) : r \in RawPages}

\* model.Update on those inputs: ticks, key "r", key "q" and fetch completions.
NextLive ==
    \/ \E p \in LiveProbes : Tick(p)
    \/ KeyQuit
    \/ KeyRefresh
    \/ \E song \in BagToSet(inflight), msg \in LiveResults : FetchCompleted(song, msg)

\* The scheduling of the bubbletea runtime: a fetchLyrics command that returns
\* has its lyricsMsg handled.  (That the pending tea.Tick fires is stated with
\* the track it probes, see TicksHandled, because a tickMsg that probes what
\* the one before probed may leave the model as it is.)
Fairness ==
    WF_vars(\E song \in BagToSet(inflight), msg \in LiveResults :
                FetchCompleted(song, msg))

SpecLive == Init /\ [][NextLive]_vars /\ Fairness

----------------------------------------------------------------------------
(* The clean-up as a function of the raw text *)

\* Raw texts: every string over Chars of at most MaxLen characters.
RawTexts == UNION {[1..n -> Chars] : n \in 0..MaxLen}

InitClean ==
    /\ songData = EmptySong
    /\ lastError = Nil
    /\ lastSong = ""
    /\ fetchingLyrics = FALSE
    /\ width = 0
    /\ height = 0
    /\ pendingTicks = 1
    /\ inflight = EmptyBag
    /\ quit = FALSE
    /\ lastEvent = NoEvent
    /\ lastTick = NoTick
    /\ raw \in RawTexts
    /\ clean = raw
    /\ applied = 0

\* cleanLyrics applied to the text, then again to its own output.
Clean ==
    /\ applied < MaxApply
    /\ clean' = cleanLyrics(clean)
    /\ applied' = applied + 1
    /\ UNCHANGED raw
    /\ UNCHANGED engineVars

NextClean == Clean

SpecClean == InitClean /\ [][NextClean]_vars

----------------------------------------------------------------------------
(* Properties *)

\* The engine's current track: none before the first track is recorded, then
\* the artist and title of songData.
currentTrack == IF lastSong = "" THEN <<>> ELSE <<songData.Artist, songData.Title>>

\* A step of the lyricsMsg case: it takes one fetch out of inflight.
LyricsStep == lastEvent'.kind = "lyrics" /\ inflight' # inflight

\* A step of the tickMsg case.
TickStep == lastEvent'.kind = "tick"

\* C1: a fetch completion whose target differs from the current track key at
\* arrival leaves the lyrics unchanged.
C1_StaleResultSuppressed ==
    [][(LyricsStep /\ lastEvent'.song # lastSong)
         => songData'.Lyrics = songData.Lyrics]_vars

\* C2: at most one lyric fetch is outstanding in every reachable state.
C2_AtMostOneFetch == BagCardinality(inflight) <= 1

\* C3: fetchingLyrics goes from true to false at every fetch completion, and
\* is never false while a started fetch is still outstanding.
C3_FlagFallsOncePerFetch ==
    [][/\ LyricsStep => (fetchingLyrics /\ ~fetchingLyrics')
       /\ BagCardinality(inflight') > 0 => fetchingLyrics']_vars

\* C4: of two consecutive ticks whose probes succeed with the same artist and
\* title, at most one starts a fetch.
C4_SameTrackOneFetch ==
    (lastTick.same /\ lastTick.prevStarted) => ~lastTick.started

\* C4 witness: the second of two such ticks has run, the first started the fetch.
C4_Witness ==
    /\ lastEvent.kind = "tick"
    /\ lastTick.same /\ lastTick.prevStarted /\ ~lastTick.started
    /\ lastSong = lastTick.Artist \o " " \o lastTick.Title

\* C5: after a tick whose probe failed lastError is that error, and after a
\* tick whose probe succeeded lastError is nil.
C5_ErrorClearedBySuccess ==
    lastEvent.kind = "tick" =>
        /\ lastTick.err # Nil => lastError = lastTick.err
        /\ lastTick.err = Nil => lastError = Nil

\* C6: cleaning a cleaned text changes nothing.
C6_CleanIdempotent == [][applied = 1 => clean' = clean]_vars

\* C7: until quit exactly one tick is pending, whatever the events handled.
C7_OneTickPending == ~quit => pendingTicks = 1

\* C7 witness: a tick was handled while a fetch was outstanding, and the next
\* tick is pending.
C7_Witness ==
    /\ lastEvent.kind = "tick"
    /\ lastTick.busy
    /\ BagCardinality(inflight) > 0
    /\ ~quit /\ pendingTicks = 1

\* C8: with no fetch in progress, a successful tick starts a fetch iff the
\* probed (artist, title) differs from the current track in some field.
C8_ChangeDetectedOnBothFields ==
    [][(TickStep /\ lastTick'.err = Nil /\ ~fetchingLyrics)
         => (lastTick'.started
               <=> currentTrack # <<lastTick'.Artist, lastTick'.Title>>)]_vars

\* C9: a fetch completion leaves lastError, title, artist, status and the
\* track key as they were.
C9_FetchCompletedFrame ==
    [][LyricsStep =>
         /\ lastError' = lastError
         /\ songData'.Title = songData.Title
         /\ songData'.Artist = songData.Artist
         /\ songData'.Status = songData.Status
         /\ lastSong' = lastSong]_vars

\* C9 witness: a failed fetch was delivered while an error and a track were
\* displayed; the placeholder is in the lyric area.
C9_Witness ==
    /\ lastEvent.kind = "lyrics"
    /\ songData.Lyrics \in Placeholders
    /\ lastError # Nil
    /\ lastSong # ""
    /\ ~fetchingLyrics

HasBracket(x) == \E i \in 1..Len(x) : x[i] \in {"[", "]"}
HasNewlineRun3(x) ==
    \E i \in 1..(Len(x) - 2) : x[i] = NL /\ x[i + 1] = NL /\ x[i + 2] = NL

\* C10: a text with no bracket and no run of three newlines is left as it is.
C10_CleanFixesPlainText ==
    (applied >= 1 /\ ~HasBracket(raw) /\ ~HasNewlineRun3(raw)) => clean = raw

\* C10 witness: a plain text with a blank line has been cleaned.
C10_Witness ==
    /\ applied = 1
    /\ raw = <<"a", NL, NL, "a">>
    /\ clean = raw

\* The artist and title the last tick probed.
probed == <<lastTick.Artist, lastTick.Title>>

C12_TickBackPressure ==
    [][(TickStep /\ fetchingLyrics)
         => /\ ~lastTick'.started
            /\ inflight' = inflight
            /\ fetchingLyrics'
            /\ songData'.Lyrics = songData.Lyrics]_vars

\* C12 witness: a tick probed a new track during a fetch and started nothing.
C12_Witness ==
    /\ lastEvent.kind = "tick"
    /\ lastTick.err = Nil /\ lastTick.busy /\ ~lastTick.started
    /\ lastSong # lastTick.Artist \o " " \o lastTick.Title
    /\ fetchingLyrics
    /\ BagCardinality(inflight) = 1

\* A step of key "r" that starts a fetch.
RefreshStep == lastEvent'.kind = "refresh" /\ inflight' # inflight

\* C13 (as claimed): key "r" with a known track sets fetchingLyrics, starts
\* one fetch for the current track, clears the lyrics and changes nothing else.
C13_RefreshLikeNewTrack ==
    [][RefreshStep =>
         /\ fetchingLyrics'
         /\ inflight' = inflight (+) SetToBag({lastSong})
         /\ songData' = [songData EXCEPT !.Lyrics = ""]
         /\ UNCHANGED <<lastError, lastSong, width, height, pendingTicks, quit>>]_vars

\* C13 (amended): key "r" with a known track sets fetchingLyrics, starts one
\* fetch for the current track and changes nothing else, the lyrics included.
C13_RefreshKeepsLyrics ==
    [][RefreshStep =>
         /\ fetchingLyrics'
         /\ inflight' = inflight (+) SetToBag({lastSong})
         /\ songData' = songData
         /\ UNCHANGED <<lastError, lastSong, width, height, pendingTicks, quit>>]_vars

\* C13 witness: key "r" was pressed with lyrics on display.
C13_Witness ==
    /\ lastEvent.kind = "refresh"
    /\ lastEvent.song = lastSong /\ lastSong # ""
    /\ fetchingLyrics
    /\ BagIn(lastSong, inflight)
    /\ songData.Lyrics # ""

\* C14: a tick whose probe fails sets lastError and changes nothing else; it
\* starts no fetch and leaves one tick pending.
C14_FailedTickFrame ==
    [][(TickStep /\ lastTick'.err # Nil)
         => /\ lastError' = lastTick'.err
            /\ ~lastTick'.started
            /\ pendingTicks' = 1
            /\ UNCHANGED <<songData, lastSong, fetchingLyrics, inflight,
                           width, height, quit>>]_vars

\* C14 witness: a probe failed with a track and its lyrics on display.
C14_Witness ==
    /\ lastEvent.kind = "tick"
    /\ lastTick.err # Nil /\ lastError = lastTick.err
    /\ lastSong # "" /\ songData.Lyrics # ""
    /\ pendingTicks = 1

\* C15: a tick that probes the current track clears lastError and, the status
\* apart, changes nothing: no fetch, same track, lyrics and flag.
C15_SameTrackTickFrame ==
    [][(TickStep /\ lastTick'.err = Nil /\ currentTrack = probed')
         => /\ lastError' = Nil
            /\ ~lastTick'.started
            /\ songData'.Title = songData.Title
            /\ songData'.Artist = songData.Artist
            /\ songData'.Lyrics = songData.Lyrics
            /\ UNCHANGED <<lastSong, fetchingLyrics, inflight>>]_vars

\* C15 witness: the current track was probed again with its lyrics on display.
C15_Witness ==
    /\ lastEvent.kind = "tick"
    /\ lastTick.err = Nil /\ ~lastTick.started /\ ~lastTick.busy
    /\ currentTrack = probed
    /\ songData.Lyrics # ""
    /\ lastError = Nil

\* C16: with no fetch in progress, a tick that probes a track other than the
\* current one records it, sets fetchingLyrics, clears the lyrics and starts
\* one fetch for artist + " " + title.
C16_NewTrackTick ==
    [][(TickStep /\ lastTick'.err = Nil /\ ~fetchingLyrics
          /\ currentTrack # probed')
         => /\ lastSong' = lastTick'.Artist \o " " \o lastTick'.Title
            /\ songData'.Artist = lastTick'.Artist
            /\ songData'.Title = lastTick'.Title
            /\ songData'.Lyrics = ""
            /\ fetchingLyrics'
            /\ inflight' = inflight
                 (+) SetToBag({lastTick'.Artist \o " " \o lastTick'.Title})]_vars

\* C17: a cleaned text holds no run of three newlines.
C17_NoNewlineRun3 == applied >= 1 => ~HasNewlineRun3(clean)

\* C19: a recorded track key is artist + " " + title of songData, and the
\* fetch key "r" starts is for that key.
C19_KeyMatchesSongData ==
    /\ lastSong # "" => lastSong = songData.Artist \o " " \o songData.Title
    /\ (lastEvent.kind = "refresh" /\ lastEvent.song # "")
         => lastEvent.song = lastSong

\* C19 witness: key "r" was pressed after a tick probed another track during
\* a fetch.
C19_Witness ==
    /\ lastEvent.kind = "refresh"
    /\ lastEvent.song = lastSong /\ lastSong # ""
    /\ lastTick.err = Nil /\ lastTick.busy
    /\ currentTrack # probed

\* From here on every tick probes track b successfully.
ProbesOnly(b) == [][TickStep => (lastTick'.err = Nil /\ probed' = b)]_vars

\* From here on every tick probes track b successfully and key "r" starts no
\* fetch.
ProbesOnlyNoRefresh(b) ==
    [][/\ TickStep => (lastTick'.err = Nil /\ probed' = b)
       /\ ~RefreshStep]_vars

\* The track key is the query of b: a fetch with that query was started.
Fetched(b) == lastSong = b[1] \o " " \o b[2]

\* The pending tea.Tick fires and its tickMsg, probing track b, is handled.
TicksHandled(b) ==
    WF_vars(\E p \in LiveProbes :
                p.err = Nil /\ <<p.data.Artist, p.data.Title>> = b /\ Tick(p))

\* C18 (as claimed): while the program runs and ticks are handled, if from
\* some point on every probe reports b, a fetch for b is eventually started.
C18_TrackEventuallyFetched ==
    \A b \in LiveTracks :
        ([]~quit /\ TicksHandled(b) /\ <>ProbesOnly(b)) => <>Fetched(b)

\* C18 (amended): the same, provided key "r" starts no fetch from that point on.
C18_TrackFetchedWithoutRefresh ==
    \A b \in LiveTracks :
        ([]~quit /\ TicksHandled(b) /\ <>ProbesOnlyNoRefresh(b)) => <>Fetched(b)

\* C18 witness: track b was first probed during a fetch for another track, and
\* is now the recorded track with its own fetch outstanding.
C18_Witness ==
    /\ lastEvent.kind = "tick"
    /\ lastTick.same /\ ~lastTick.prevStarted /\ lastTick.started
    /\ Fetched(probed)
    /\ BagIn(lastSong, inflight)

====
